---------------------------- MODULE Spec2Model ----------------------------
(***************************************************************************)
(* Model of the provider resolution engine of src/lib/ai-providers.ts:     *)
(* getAIModel(overrides) and the helpers it calls (detectProvider,         *)
(* validateProviderCredentials, buildProviderOptions, parseIntSafe).       *)
(*                                                                         *)
(* Encoding of JavaScript values.                                          *)
(*  - Every read of an override field or of process.env in the source is   *)
(*    a truthiness test (if (x), !x, !!x, x || y, x && y), so undefined,   *)
(*    null and the empty string are indistinguishable to the code.  The    *)
(*    empty string "" stands for all three.                                *)
(*  - A thrown Error is a record [kind, var, providers]: kind names the    *)
(*    message template of the throw statement, var and providers are the   *)
(*    values interpolated into the message.                                *)
(*  - A JavaScript object is a record whose DOMAIN is its set of keys;     *)
(*    <<>> is the object without keys.  Where the code yields undefined    *)
(*    for an options object it never yields {} (ai-providers.ts:355), so   *)
(*    <<>> stands for undefined in those places.                           *)
(*                                                                         *)
(* The module also models the access-code form of                          *)
(* src/components/settings-dialog.tsx (handleSave, handleKeyDown and the   *)
(* Save button), whose state is held in the variables declared after       *)
(* result.  A specification of the engine leaves the form at rest, and     *)
(* DialogSpec leaves the engine at rest.                                   *)
(***************************************************************************)
EXTENDS Integers, Sequences, FiniteSets, TLC

VARIABLES
    env,        \* process.env at the time of the call
    overrides,  \* the ClientOverrides argument of the call
    pc,         \* "idle" before getAIModel ran, "done" after
    result,     \* what getAIModel returned or threw
    accessCode,         \* useState: the text of the access-code input
    isVerifying,        \* useState
    errorMessage,       \* useState error (the name error is taken by Err's fields)
    accessCodeRequired, \* useState
    open,               \* the open prop of the dialog
    storedAccessCode,   \* localStorage[STORAGE_ACCESS_CODE_KEY], "" when unset
    configPending,      \* the mount effect's fetch of /api/config has not settled
    requests,           \* the calls of handleSave that sent a request, in call order
    calls               \* the number of calls of handleSave so far

resolutionVars == <<env, overrides, pc, result>>

dialogVars ==
    <<accessCode, isVerifying, errorMessage, accessCodeRequired, open,
      storedAccessCode, configPending, requests, calls>>

vars == <<env, overrides, pc, result, accessCode, isVerifying, errorMessage,
          accessCodeRequired, open, storedAccessCode, configPending,
          requests, calls>>

-----------------------------------------------------------------------------
(* Strings *)

\* String.prototype.includes
Includes(s, sub) ==
    \E i \in 1..(Len(s) - Len(sub) + 1) : SubSeq(s, i, i + Len(sub) - 1) = sub

\* Array.prototype.includes on a sequence
SeqIncludes(seq, x) == \E i \in 1..Len(seq) : seq[i] = x

-----------------------------------------------------------------------------
(* Provider catalog *)

\* type ProviderName, in the key order of PROVIDER_ENV_VARS (Object.entries
\* iterates in insertion order)
ProviderName ==
    <<"bedrock", "openai", "anthropic", "google", "azure", "ollama",
      "openrouter", "deepseek", "siliconflow", "glm", "qwen", "doubao",
      "qiniu", "kimi">>

\* variant of ALLOWED_CLIENT_PROVIDERS: every catalog name is allowed
AllProvidersAllowed == ProviderName

ALLOWED_CLIENT_PROVIDERS ==
    <<"openai", "anthropic", "google", "azure", "openrouter", "deepseek",
      "siliconflow", "glm", "qwen", "doubao", "qiniu", "kimi">>

\* null is ""
PROVIDER_ENV_VARS(provider) ==
    CASE provider = "bedrock" -> ""
      [] provider = "openai" -> "OPENAI_API_KEY"
      [] provider = "anthropic" -> "ANTHROPIC_API_KEY"
      [] provider = "google" -> "GOOGLE_GENERATIVE_AI_API_KEY"
      [] provider = "azure" -> "AZURE_API_KEY"
      [] provider = "ollama" -> ""
      [] provider = "openrouter" -> "OPENROUTER_API_KEY"
      [] provider = "deepseek" -> "DEEPSEEK_API_KEY"
      [] provider = "siliconflow" -> "SILICONFLOW_API_KEY"
      [] provider = "glm" -> "GLM_API_KEY"
      [] provider = "qwen" -> "QWEN_API_KEY"
      [] provider = "doubao" -> "DOUBAO_API_KEY"
      [] provider = "qiniu" -> "QINIU_API_KEY"
      [] provider = "kimi" -> "KIMI_API_KEY"
      [] OTHER -> ""  \* PROVIDER_ENV_VARS[x] is undefined for any other x

BEDROCK_ANTHROPIC_BETA ==
    [bedrock |-> [anthropicBeta |-> <<"fine-grained-tool-streaming-2025-05-14">>]]

ANTHROPIC_BETA_HEADERS ==
    "anthropic-beta" :> "fine-grained-tool-streaming-2025-05-14"

-----------------------------------------------------------------------------
(* Errors *)

Err(kind, var, providers) == [kind |-> kind, var |-> var, providers |-> providers]

NoError == Err("none", "", <<>>)


-----------------------------------------------------------------------------
(* Number parsing *)

IsDigit(c) == c \in {"0", "1", "2", "3", "4", "5", "6", "7", "8", "9"}

DigitValue(c) ==
    CASE c = "0" -> 0 [] c = "1" -> 1 [] c = "2" -> 2 [] c = "3" -> 3
      [] c = "4" -> 4 [] c = "5" -> 5 [] c = "6" -> 6 [] c = "7" -> 7
      [] c = "8" -> 8 [] c = "9" -> 9

CharAt(s, i) == SubSeq(s, i, i)

\* index of the first character of s at or after i that is not a blank
RECURSIVE SkipBlanks(_, _)
SkipBlanks(s, i) ==
    IF i <= Len(s) /\ CharAt(s, i) = " " THEN SkipBlanks(s, i + 1) ELSE i

\* index after the last digit of the run of digits of s starting at i
RECURSIVE DigitsEnd(_, _)
DigitsEnd(s, i) ==
    IF i <= Len(s) /\ IsDigit(CharAt(s, i)) THEN DigitsEnd(s, i + 1) ELSE i

\* value of the digits s[i..j-1]
RECURSIVE DigitsValue(_, _, _)
DigitsValue(s, i, j) ==
    IF j <= i THEN 0
    ELSE 10 * DigitsValue(s, i, j - 1) + DigitValue(CharAt(s, j - 1))

\* the number of a sign and the digits s[d..e-1]; NaN when there is no digit
IntOfDigits(s, neg, d, e) ==
    IF e = d THEN [nan |-> TRUE, value |-> 0]
    ELSE [nan |-> FALSE,
          value |-> IF neg THEN 0 - DigitsValue(s, d, e) ELSE DigitsValue(s, d, e)]

\* the number that starts at s[b], its optional sign included
IntAt(s, b) ==
    IF b <= Len(s) /\ CharAt(s, b) \in {"-", "+"}
    THEN IntOfDigits(s, CharAt(s, b) = "-", b + 1, DigitsEnd(s, b + 1))
    ELSE IntOfDigits(s, FALSE, b, DigitsEnd(s, b))

\* Number.parseInt(s, 10): leading blanks are skipped, an optional sign and
\* the longest run of digits are read, the rest of the string is ignored;
\* NaN when there is no digit to read.
ParseInt(s) == IntAt(s, SkipBlanks(s, 1))

\* the checks of parseIntSafe on the parsed number
checkParsed(parsed, varName, min, max) ==
    IF parsed.nan
    THEN [error |-> Err("must be a valid integer", varName, <<>>),
          defined |-> FALSE, value |-> 0]
    ELSE IF parsed.value < min
    THEN [error |-> Err("must be >= min", varName, <<>>),
          defined |-> FALSE, value |-> 0]
    ELSE IF parsed.value > max
    THEN [error |-> Err("must be <= max", varName, <<>>),
          defined |-> FALSE, value |-> 0]
    ELSE [error |-> NoError, defined |-> TRUE, value |-> parsed.value]

\* parseIntSafe: [error, defined, value]; defined = FALSE is undefined
parseIntSafe(value, varName, min, max) ==
    IF value = "" THEN [error |-> NoError, defined |-> FALSE, value |-> 0]
    ELSE checkParsed(ParseInt(value), varName, min, max)

\* truthiness of a parseIntSafe result: defined and not 0
Truthy(n) == n.defined /\ n.value # 0

-----------------------------------------------------------------------------
(* Auto-detection and credential validation *)

\* variant of configuredProviders: azure counts with its key alone
configuredProvidersKeyOnly(e) ==
    SelectSeq(ProviderName,
        LAMBDA provider :
            /\ PROVIDER_ENV_VARS(provider) # ""
            /\ e[PROVIDER_ENV_VARS(provider)] # "")

\* the configuredProviders array built by the loop of detectProvider
configuredProviders(e) ==
    SelectSeq(ProviderName,
        LAMBDA provider :
            /\ PROVIDER_ENV_VARS(provider) # ""
            /\ e[PROVIDER_ENV_VARS(provider)] # ""
            /\ provider = "azure" =>
                  (e["AZURE_BASE_URL"] # "" \/ e["AZURE_RESOURCE_NAME"] # ""))

\* variant of detectProvider: the first configured provider is the best guess
detectProviderFirstConfigured(e) ==
    IF Len(configuredProviders(e)) >= 1 THEN configuredProviders(e)[1] ELSE ""

\* null is ""
detectProvider(e) ==
    IF Len(configuredProviders(e)) = 1 THEN configuredProviders(e)[1] ELSE ""

\* the configured array of getAIModel, listed in its error message
configured(e) ==
    SelectSeq(ProviderName,
        LAMBDA p : PROVIDER_ENV_VARS(p) # "" /\ e[PROVIDER_ENV_VARS(p)] # "")

\* variant of validateProviderCredentials: the required variable is not checked
validateProviderCredentialsAzureOnly(provider, e) ==
    IF /\ provider = "azure"
       /\ e["AZURE_BASE_URL"] = ""
       /\ e["AZURE_RESOURCE_NAME"] = ""
    THEN Err("Azure requires either AZURE_BASE_URL or AZURE_RESOURCE_NAME", "", <<>>)
    ELSE NoError

\* variant of validateProviderCredentials: azure needs AZURE_BASE_URL, a
\* resource name alone is not accepted
validateProviderCredentialsBaseUrlOnly(provider, e) ==
    LET requiredVar == PROVIDER_ENV_VARS(provider) IN
    IF requiredVar # "" /\ e[requiredVar] = ""
    THEN Err("environment variable is required", requiredVar, <<provider>>)
    ELSE IF provider = "azure" /\ e["AZURE_BASE_URL"] = ""
    THEN Err("Azure requires either AZURE_BASE_URL or AZURE_RESOURCE_NAME", "", <<>>)
    ELSE NoError

\* the Error validateProviderCredentials throws, NoError when it returns
validateProviderCredentials(provider, e) ==
    LET requiredVar == PROVIDER_ENV_VARS(provider) IN
    IF requiredVar # "" /\ e[requiredVar] = ""
    THEN Err("environment variable is required", requiredVar, <<provider>>)
    ELSE IF /\ provider = "azure"
            /\ e["AZURE_BASE_URL"] = ""
            /\ e["AZURE_RESOURCE_NAME"] = ""
    THEN Err("Azure requires either AZURE_BASE_URL or AZURE_RESOURCE_NAME", "", <<>>)
    ELSE NoError

-----------------------------------------------------------------------------
(* Objects *)

\* the object { key: value }
Obj(key, value) == key :> value

\* { ...a, ...b }: the keys of both, b's value where both have the key
Spread(a, b) == b @@ a

\* obj.key = value when cond (the if statements that add one field)
SetIf(cond, obj, key, value) == IF cond THEN Spread(obj, Obj(key, value)) ELSE obj

\* Object.keys(obj).length > 0
HasKeys(obj) == DOMAIN obj # {}

RECURSIVE Pow10(_)
Pow10(n) == IF n <= 0 THEN 1 ELSE 10 * Pow10(n - 1)

\* the number mant * 10^(+-ex) / 10^nfrac
FloatOf(neg, mant, nfrac, expNeg, ex) ==
    [nan |-> FALSE, inf |-> FALSE, neg |-> neg,
     num |-> mant * (IF expNeg THEN 1 ELSE Pow10(ex)),
     den |-> Pow10(nfrac) * (IF expNeg THEN Pow10(ex) ELSE 1)]

\* the exponent digits s[xd..xe-1] after the mark and sign; an exponent
\* without a digit is not part of the number
FloatExponentDigits(s, neg, mant, nfrac, expNeg, xd, xe) ==
    FloatOf(neg, mant, nfrac, expNeg, IF xe > xd THEN DigitsValue(s, xd, xe) ELSE 0)

\* the optional exponent that starts at s[f]
FloatExponent(s, neg, mant, nfrac, f) ==
    IF f <= Len(s) /\ CharAt(s, f) \in {"e", "E"}
    THEN IF f + 1 <= Len(s) /\ CharAt(s, f + 1) \in {"-", "+"}
         THEN FloatExponentDigits(s, neg, mant, nfrac, CharAt(s, f + 1) = "-",
                                  f + 2, DigitsEnd(s, f + 2))
         ELSE FloatExponentDigits(s, neg, mant, nfrac, FALSE,
                                  f + 1, DigitsEnd(s, f + 1))
    ELSE FloatOf(neg, mant, nfrac, FALSE, 0)

\* integer part s[d..e-1], fraction digits s[e+1..f-1] when s[e] is a dot
FloatFraction(s, neg, d, e, f) ==
    IF e = d /\ f <= e + 1
    THEN [nan |-> TRUE, inf |-> FALSE, neg |-> FALSE, num |-> 0, den |-> 1]
    ELSE IF f > e
    THEN FloatExponent(s, neg,
             DigitsValue(s, d, e) * Pow10(f - (e + 1)) + DigitsValue(s, e + 1, f),
             f - (e + 1), f)
    ELSE FloatExponent(s, neg, DigitsValue(s, d, e), 0, f)

\* the digits of the integer part end before s[e]
FloatInteger(s, neg, d, e) ==
    IF e <= Len(s) /\ CharAt(s, e) = "."
    THEN FloatFraction(s, neg, d, e, DigitsEnd(s, e + 1))
    ELSE FloatFraction(s, neg, d, e, e)

\* the number after the sign starts at s[d]
FloatUnsigned(s, neg, d) ==
    IF d + 7 <= Len(s) /\ SubSeq(s, d, d + 7) = "Infinity"
    THEN [nan |-> FALSE, inf |-> TRUE, neg |-> neg, num |-> 0, den |-> 1]
    ELSE FloatInteger(s, neg, d, DigitsEnd(s, d))

FloatAt(s, b) ==
    IF b <= Len(s) /\ CharAt(s, b) \in {"-", "+"}
    THEN FloatUnsigned(s, CharAt(s, b) = "-", b + 1)
    ELSE FloatUnsigned(s, FALSE, b)

\* Number.parseFloat(s): blanks skipped, optional sign, digits, optional
\* fraction, optional exponent; the number is num / den.  inf is the literal
\* Infinity.  NaN when neither a digit nor Infinity can be read.
ParseFloat(s) == FloatAt(s, SkipBlanks(s, 1))

\* topP < 0 and topP > 1 of a ParseFloat result (-0 and -0.0 are not < 0)
FloatLtZero(x) == x.neg /\ (x.inf \/ x.num > 0)
FloatGtOne(x) == ~x.neg /\ (x.inf \/ x.num > x.den)

-----------------------------------------------------------------------------
(* buildProviderOptions: [error, options]; options <<>> is undefined *)

Built(options) == [error |-> NoError, options |-> options]
Thrown(error) == [error |-> error, options |-> <<>>]

\* variant of buildOpenAIOptions: no default summary for reasoning models
buildOpenAIOptionsNoDefault(modelId, e) ==
    LET reasoningEffort == e["OPENAI_REASONING_EFFORT"]
        reasoningSummary == e["OPENAI_REASONING_SUMMARY"]
    IN  IF reasoningEffort # "" \/ reasoningSummary # ""
        THEN Built(Obj("openai",
                SetIf(reasoningSummary # "",
                      SetIf(reasoningEffort # "", <<>>,
                            "reasoningEffort", reasoningEffort),
                      "reasoningSummary", reasoningSummary)))
        ELSE Built(<<>>)

buildOpenAIOptions(modelId, e) ==
    LET reasoningEffort == e["OPENAI_REASONING_EFFORT"]
        reasoningSummary == e["OPENAI_REASONING_SUMMARY"]
    IN  IF /\ modelId # ""
           /\ \/ Includes(modelId, "o1")
              \/ Includes(modelId, "o3")
              \/ Includes(modelId, "gpt-5")
        THEN Built(Obj("openai",
                SetIf(reasoningEffort # "",
                      Obj("reasoningSummary",
                          IF reasoningSummary # "" THEN reasoningSummary
                          ELSE "detailed"),
                      "reasoningEffort", reasoningEffort)))
        ELSE IF reasoningEffort # "" \/ reasoningSummary # ""
        THEN Built(Obj("openai",
                SetIf(reasoningSummary # "",
                      SetIf(reasoningEffort # "", <<>>,
                            "reasoningEffort", reasoningEffort),
                      "reasoningSummary", reasoningSummary)))
        ELSE Built(<<>>)

\* case "anthropic" after parseIntSafe
anthropicOptions(thinkingBudget, thinkingType) ==
    IF thinkingBudget.error # NoError THEN Thrown(thinkingBudget.error)
    ELSE IF Truthy(thinkingBudget)
    THEN Built(Obj("anthropic",
            Obj("thinking", [type |-> thinkingType,
                             budgetTokens |-> thinkingBudget.value])))
    ELSE Built(<<>>)

buildAnthropicOptions(modelId, e) ==
    anthropicOptions(
        parseIntSafe(e["ANTHROPIC_THINKING_BUDGET_TOKENS"],
                     "ANTHROPIC_THINKING_BUDGET_TOKENS", 1024, 64000),
        IF e["ANTHROPIC_THINKING_TYPE"] # ""
        THEN e["ANTHROPIC_THINKING_TYPE"] ELSE "enabled")

\* variant of googleReasoning: the budget is attached for every matching
\* generation
googleReasoningBudgetAnyGeneration(modelId, e, thinkingBudgetVal) ==
    LET reasoningEffort == e["GOOGLE_REASONING_EFFORT"]
        thinkingLevel == e["GOOGLE_THINKING_LEVEL"]
    IN  IF /\ modelId # ""
           /\ \/ Includes(modelId, "gemini-2")
              \/ Includes(modelId, "gemini-3")
              \/ Includes(modelId, "gemini2")
              \/ Includes(modelId, "gemini3")
        THEN Obj("google", Obj("thinkingConfig",
                IF Truthy(thinkingBudgetVal)
                THEN [includeThoughts |-> TRUE,
                      thinkingBudget |-> thinkingBudgetVal.value]
                ELSE IF /\ thinkingLevel # ""
                        /\ \/ Includes(modelId, "gemini-3")
                           \/ Includes(modelId, "gemini3")
                THEN [includeThoughts |-> TRUE, thinkingLevel |-> thinkingLevel]
                ELSE [includeThoughts |-> TRUE]))
        ELSE IF reasoningEffort # ""
        THEN Obj("google", Obj("reasoningEffort", reasoningEffort))
        ELSE <<>>

\* the reasoning part of case "google" (lines 195-230): options.google or <<>>
googleReasoning(modelId, e, thinkingBudgetVal) ==
    LET reasoningEffort == e["GOOGLE_REASONING_EFFORT"]
        thinkingLevel == e["GOOGLE_THINKING_LEVEL"]
    IN  IF /\ modelId # ""
           /\ \/ Includes(modelId, "gemini-2")
              \/ Includes(modelId, "gemini-3")
              \/ Includes(modelId, "gemini2")
              \/ Includes(modelId, "gemini3")
        THEN Obj("google", Obj("thinkingConfig",
                IF /\ Truthy(thinkingBudgetVal)
                   /\ (Includes(modelId, "2.5") \/ Includes(modelId, "2-5"))
                THEN [includeThoughts |-> TRUE,
                      thinkingBudget |-> thinkingBudgetVal.value]
                ELSE IF /\ thinkingLevel # ""
                        /\ \/ Includes(modelId, "gemini-3")
                           \/ Includes(modelId, "gemini3")
                THEN [includeThoughts |-> TRUE, thinkingLevel |-> thinkingLevel]
                ELSE [includeThoughts |-> TRUE]))
        ELSE IF reasoningEffort # ""
        THEN Obj("google", Obj("reasoningEffort", reasoningEffort))
        ELSE <<>>

\* the options_obj of case "google" (lines 233-260)
googleSampling(e, candidateCount, topK, topP) ==
    SetIf(e["GOOGLE_TOP_P"] # "",
          SetIf(Truthy(topK),
                SetIf(Truthy(candidateCount), <<>>,
                      "candidateCount", candidateCount.value),
                "topK", topK.value),
          "topP", [num |-> topP.num, den |-> topP.den])

\* variant of googleMerge: the sampling options replace options.google
googleMergeReplacing(options, options_obj) ==
    IF HasKeys(options_obj)
    THEN Built(Obj("google", options_obj))
    ELSE Built(options)

\* options.google = { ...options.google, ...options_obj } (lines 262-264)
googleMerge(options, options_obj) ==
    IF HasKeys(options_obj)
    THEN Built(Obj("google",
            Spread(IF "google" \in DOMAIN options THEN options.google ELSE <<>>,
                   options_obj)))
    ELSE Built(options)

\* case "google" after the parses, each of which throws in its turn
googleOptions(modelId, e, thinkingBudgetVal, candidateCount, topK, topP) ==
    IF thinkingBudgetVal.error # NoError THEN Thrown(thinkingBudgetVal.error)
    ELSE IF candidateCount.error # NoError THEN Thrown(candidateCount.error)
    ELSE IF topK.error # NoError THEN Thrown(topK.error)
    ELSE IF /\ e["GOOGLE_TOP_P"] # ""
            /\ (topP.nan \/ FloatLtZero(topP) \/ FloatGtOne(topP))
    THEN Thrown(Err("must be a number between 0 and 1", "GOOGLE_TOP_P", <<>>))
    ELSE googleMerge(googleReasoning(modelId, e, thinkingBudgetVal),
                     googleSampling(e, candidateCount, topK, topP))

buildGoogleOptions(modelId, e) ==
    googleOptions(modelId, e,
        parseIntSafe(e["GOOGLE_THINKING_BUDGET"], "GOOGLE_THINKING_BUDGET",
                     1024, 100000),
        parseIntSafe(e["GOOGLE_CANDIDATE_COUNT"], "GOOGLE_CANDIDATE_COUNT", 1, 8),
        parseIntSafe(e["GOOGLE_TOP_K"], "GOOGLE_TOP_K", 1, 100),
        ParseFloat(e["GOOGLE_TOP_P"]))

buildAzureOptions(modelId, e) ==
    LET reasoningEffort == e["AZURE_REASONING_EFFORT"]
        reasoningSummary == e["AZURE_REASONING_SUMMARY"]
    IN  IF reasoningEffort # "" \/ reasoningSummary # ""
        THEN Built(Obj("azure",
                SetIf(reasoningSummary # "",
                      SetIf(reasoningEffort # "", <<>>,
                            "reasoningEffort", reasoningEffort),
                      "reasoningSummary", reasoningSummary)))
        ELSE Built(<<>>)

\* case "bedrock" after parseIntSafe
bedrockOptions(modelId, budgetTokens, reasoningEffort) ==
    IF budgetTokens.error # NoError THEN Thrown(budgetTokens.error)
    ELSE IF /\ modelId # ""
            /\ (Truthy(budgetTokens) \/ reasoningEffort # "")
            /\ \/ Includes(modelId, "claude")
               \/ Includes(modelId, "anthropic")
               \/ Includes(modelId, "nova")
               \/ Includes(modelId, "amazon")
    THEN Built(Obj("bedrock", Obj("reasoningConfig",
            IF /\ Truthy(budgetTokens)
               /\ (Includes(modelId, "claude") \/ Includes(modelId, "anthropic"))
            THEN [type |-> "enabled", budgetTokens |-> budgetTokens.value]
            ELSE IF /\ reasoningEffort # ""
                    /\ (Includes(modelId, "nova") \/ Includes(modelId, "amazon"))
            THEN [type |-> "enabled", maxReasoningEffort |-> reasoningEffort]
            ELSE [type |-> "enabled"])))
    ELSE Built(<<>>)

buildBedrockOptions(modelId, e) ==
    bedrockOptions(modelId,
        parseIntSafe(e["BEDROCK_REASONING_BUDGET_TOKENS"],
                     "BEDROCK_REASONING_BUDGET_TOKENS", 1024, 64000),
        e["BEDROCK_REASONING_EFFORT"])

buildOllamaOptions(modelId, e) ==
    IF e["OLLAMA_ENABLE_THINKING"] = "true"
    THEN Built(Obj("ollama", [think |-> TRUE]))
    ELSE Built(<<>>)

buildProviderOptions(provider, modelId, e) ==
    CASE provider = "openai" -> buildOpenAIOptions(modelId, e)
      [] provider = "anthropic" -> buildAnthropicOptions(modelId, e)
      [] provider = "google" -> buildGoogleOptions(modelId, e)
      [] provider = "azure" -> buildAzureOptions(modelId, e)
      [] provider = "bedrock" -> buildBedrockOptions(modelId, e)
      [] provider = "ollama" -> buildOllamaOptions(modelId, e)
      [] OTHER -> Built(<<>>)

-----------------------------------------------------------------------------
(* Client construction: the switch of getAIModel *)

\* x || y on strings
Or(x, y) == IF x # "" THEN x ELSE y

\* a model handle: the SDK entry point called, the settings object passed to
\* it (<<>> for a default client, which takes none), how the model is taken
\* from the provider (provider(modelId) or provider.chat(modelId))
Model(factory, settings, method, modelId) ==
    [factory |-> factory, settings |-> settings, method |-> method,
     modelId |-> modelId]

\* { apiKey, ...(baseURL && { baseURL }) }
KeyAndOptionalBaseURL(apiKey, baseURL) ==
    SetIf(baseURL # "", Obj("apiKey", apiKey), "baseURL", baseURL)

Switched(model, providerOptions, headers) ==
    [error |-> NoError, model |-> model, providerOptions |-> providerOptions,
     headers |-> headers]

\* variant of caseBedrock: the options built from the environment replace the
\* beta flags instead of being merged with them
caseBedrockShallowMerge(modelId, o, e, customProviderOptions) ==
    Switched(
        Model("createAmazonBedrock",
              [region |-> Or(e["AWS_REGION"], "us-west-2"),
               credentialProvider |-> "fromNodeProviderChain"],
              "call", modelId),
        IF Includes(modelId, "anthropic.claude") /\ ~HasKeys(customProviderOptions)
        THEN BEDROCK_ANTHROPIC_BETA
        ELSE customProviderOptions,
        <<>>)

caseBedrock(modelId, o, e, customProviderOptions) ==
    Switched(
        Model("createAmazonBedrock",
              [region |-> Or(e["AWS_REGION"], "us-west-2"),
               credentialProvider |-> "fromNodeProviderChain"],
              "call", modelId),
        IF Includes(modelId, "anthropic.claude")
        THEN Obj("bedrock",
                 Spread(BEDROCK_ANTHROPIC_BETA.bedrock,
                        IF "bedrock" \in DOMAIN customProviderOptions
                        THEN customProviderOptions.bedrock ELSE <<>>))
        ELSE customProviderOptions,
        <<>>)

\* variant of caseCustomOrDefault: the server's key takes precedence
caseCustomOrDefaultServerKeyFirst(create, default, method, keyVar, urlVar, modelId, o, e) ==
    LET apiKey == Or(e[keyVar], o.apiKey)
        baseURL == Or(o.baseUrl, e[urlVar])
    IN  IF baseURL # "" \/ o.apiKey # ""
        THEN Switched(Model(create, KeyAndOptionalBaseURL(apiKey, baseURL),
                            method, modelId), <<>>, <<>>)
        ELSE Switched(Model(default, <<>>, "call", modelId), <<>>, <<>>)

\* openai, google, deepseek: a custom client when an endpoint or an override
\* key is present, the SDK's default client otherwise
caseCustomOrDefault(create, default, method, keyVar, urlVar, modelId, o, e) ==
    LET apiKey == Or(o.apiKey, e[keyVar])
        baseURL == Or(o.baseUrl, e[urlVar])
    IN  IF baseURL # "" \/ o.apiKey # ""
        THEN Switched(Model(create, KeyAndOptionalBaseURL(apiKey, baseURL),
                            method, modelId), <<>>, <<>>)
        ELSE Switched(Model(default, <<>>, "call", modelId), <<>>, <<>>)

\* variant of caseAnthropic: the beta headers go to the client only, not to
\* the descriptor
caseAnthropicNoHeaders(modelId, o, e) ==
    LET apiKey == Or(o.apiKey, e["ANTHROPIC_API_KEY"])
        baseURL == Or(o.baseUrl,
                      Or(e["ANTHROPIC_BASE_URL"], "https://api.anthropic.com/v1"))
    IN  Switched(Model("createAnthropic",
                       [apiKey |-> apiKey, baseURL |-> baseURL,
                        headers |-> ANTHROPIC_BETA_HEADERS],
                       "call", modelId),
                 <<>>, <<>>)

caseAnthropic(modelId, o, e) ==
    LET apiKey == Or(o.apiKey, e["ANTHROPIC_API_KEY"])
        baseURL == Or(o.baseUrl,
                      Or(e["ANTHROPIC_BASE_URL"], "https://api.anthropic.com/v1"))
    IN  Switched(Model("createAnthropic",
                       [apiKey |-> apiKey, baseURL |-> baseURL,
                        headers |-> ANTHROPIC_BETA_HEADERS],
                       "call", modelId),
                 <<>>, ANTHROPIC_BETA_HEADERS)

\* variant of caseAzure: a resource name alone does not make a custom client
caseAzureIgnoringResourceName(modelId, o, e) ==
    LET apiKey == Or(o.apiKey, e["AZURE_API_KEY"])
        baseURL == Or(o.baseUrl, e["AZURE_BASE_URL"])
        resourceName == e["AZURE_RESOURCE_NAME"]
    IN  IF baseURL # "" \/ o.apiKey # ""
        THEN Switched(
                Model("createAzure",
                      SetIf(baseURL = "" /\ resourceName # "",
                            KeyAndOptionalBaseURL(apiKey, baseURL),
                            "resourceName", resourceName),
                      "call", modelId),
                <<>>, <<>>)
        ELSE Switched(Model("azure", <<>>, "call", modelId), <<>>, <<>>)

caseAzure(modelId, o, e) ==
    LET apiKey == Or(o.apiKey, e["AZURE_API_KEY"])
        baseURL == Or(o.baseUrl, e["AZURE_BASE_URL"])
        resourceName == e["AZURE_RESOURCE_NAME"]
    IN  IF baseURL # "" \/ resourceName # "" \/ o.apiKey # ""
        THEN Switched(
                Model("createAzure",
                      SetIf(baseURL = "" /\ resourceName # "",
                            KeyAndOptionalBaseURL(apiKey, baseURL),
                            "resourceName", resourceName),
                      "call", modelId),
                <<>>, <<>>)
        ELSE Switched(Model("azure", <<>>, "call", modelId), <<>>, <<>>)

caseOllama(modelId, o, e) ==
    IF e["OLLAMA_BASE_URL"] # ""
    THEN Switched(Model("createOllama", [baseURL |-> e["OLLAMA_BASE_URL"]],
                        "call", modelId), <<>>, <<>>)
    ELSE Switched(Model("ollama", <<>>, "call", modelId), <<>>, <<>>)

caseOpenRouter(modelId, o, e) ==
    LET apiKey == Or(o.apiKey, e["OPENROUTER_API_KEY"])
        baseURL == Or(o.baseUrl, e["OPENROUTER_BASE_URL"])
    IN  Switched(Model("createOpenRouter", KeyAndOptionalBaseURL(apiKey, baseURL),
                       "call", modelId), <<>>, <<>>)

\* variant of caseOpenAICompatible: the server's endpoint takes precedence
caseOpenAICompatibleEnvEndpointFirst(keyVar, urlVar, defaultURL, modelId, o, e) ==
    LET apiKey == Or(o.apiKey, e[keyVar])
        baseURL == Or(e[urlVar], Or(o.baseUrl, defaultURL))
    IN  Switched(Model("createOpenAI", [apiKey |-> apiKey, baseURL |-> baseURL],
                       "chat", modelId), <<>>, <<>>)

\* siliconflow, glm, qwen, doubao, qiniu, kimi: createOpenAI with the
\* provider's key and endpoint, the endpoint defaulting to a fixed URL
caseOpenAICompatible(keyVar, urlVar, defaultURL, modelId, o, e) ==
    LET apiKey == Or(o.apiKey, e[keyVar])
        baseURL == Or(o.baseUrl, Or(e[urlVar], defaultURL))
    IN  Switched(Model("createOpenAI", [apiKey |-> apiKey, baseURL |-> baseURL],
                       "chat", modelId), <<>>, <<>>)

switchProvider(provider, modelId, o, e, customProviderOptions) ==
    CASE provider = "bedrock" -> caseBedrock(modelId, o, e, customProviderOptions)
      [] provider = "openai" ->
            caseCustomOrDefault("createOpenAI", "openai", "chat",
                "OPENAI_API_KEY", "OPENAI_BASE_URL", modelId, o, e)
      [] provider = "anthropic" -> caseAnthropic(modelId, o, e)
      [] provider = "google" ->
            caseCustomOrDefault("createGoogleGenerativeAI", "google", "call",
                "GOOGLE_GENERATIVE_AI_API_KEY", "GOOGLE_BASE_URL", modelId, o, e)
      [] provider = "azure" -> caseAzure(modelId, o, e)
      [] provider = "ollama" -> caseOllama(modelId, o, e)
      [] provider = "openrouter" -> caseOpenRouter(modelId, o, e)
      [] provider = "deepseek" ->
            caseCustomOrDefault("createDeepSeek", "deepseek", "call",
                "DEEPSEEK_API_KEY", "DEEPSEEK_BASE_URL", modelId, o, e)
      [] provider = "siliconflow" ->
            caseOpenAICompatible("SILICONFLOW_API_KEY", "SILICONFLOW_BASE_URL",
                "https://api.siliconflow.com/v1", modelId, o, e)
      [] provider = "glm" ->
            caseOpenAICompatible("GLM_API_KEY", "GLM_BASE_URL",
                "https://open.bigmodel.cn/api/paas/v4", modelId, o, e)
      [] provider = "qwen" ->
            caseOpenAICompatible("QWEN_API_KEY", "QWEN_BASE_URL",
                "https://dashscope.aliyun.com/compatible-mode/v1", modelId, o, e)
      [] provider = "doubao" ->
            caseOpenAICompatible("DOUBAO_API_KEY", "DOUBAO_BASE_URL",
                "https://ark.cn-beijing.volces.com/api/v3", modelId, o, e)
      [] provider = "qiniu" ->
            caseOpenAICompatible("QINIU_API_KEY", "QINIU_BASE_URL",
                "https://api.qiniucdn.com/v1", modelId, o, e)
      [] provider = "kimi" ->
            caseOpenAICompatible("KIMI_API_KEY", "KIMI_BASE_URL",
                "https://api.moonshot.cn/v1", modelId, o, e)
      [] OTHER ->
            [error |-> Err("Unknown AI provider", provider, ProviderName),
             model |-> <<>>, providerOptions |-> <<>>, headers |-> <<>>]

-----------------------------------------------------------------------------
(* getAIModel *)

\* variant of baseUrlWithoutApiKey: guards only calls that name a provider
baseUrlWithoutApiKeyOfProvider(o) == o.baseUrl # "" /\ o.apiKey = "" /\ o.provider # ""

\* the SSRF guard: a custom base URL without an API key
baseUrlWithoutApiKey(o) == o.baseUrl # "" /\ o.apiKey = ""

isClientOverride(o) == o.provider # "" /\ o.apiKey # ""

\* variant of resolveModelId: AI_MODEL takes precedence over the override
resolveModelIdEnvFirst(o, e) == Or(e["AI_MODEL"], o.modelId)

\* const modelId = overrides?.modelId || process.env.AI_MODEL
resolveModelId(o, e) == Or(o.modelId, e["AI_MODEL"])

\* the provider precedence block: [error, provider]
determineProvider(o, e) ==
    IF o.provider # ""
    THEN IF ~SeqIncludes(ALLOWED_CLIENT_PROVIDERS, o.provider)
         THEN [error |-> Err("Invalid provider", o.provider, ALLOWED_CLIENT_PROVIDERS),
               provider |-> ""]
         ELSE [error |-> NoError, provider |-> o.provider]
    ELSE IF e["AI_PROVIDER"] # ""
    THEN [error |-> NoError, provider |-> e["AI_PROVIDER"]]
    ELSE LET detected == detectProvider(e) IN
         IF detected # ""
         THEN [error |-> NoError, provider |-> detected]
         ELSE IF Len(configured(e)) = 0
         THEN [error |-> Err("No AI provider configured", "", <<>>), provider |-> ""]
         ELSE [error |-> Err("Multiple AI providers configured", "", configured(e)),
               provider |-> ""]

\* the call ended by throw: the Error, and the local provider at that point
Throw(error, provider) ==
    [error |-> error, provider |-> provider, value |-> <<>>]

\* the call ended by return: the ModelConfig returned
Return(provider, model, providerOptions, headers, modelId) ==
    [error |-> NoError, provider |-> provider,
     value |-> [model |-> model, providerOptions |-> providerOptions,
                headers |-> headers, modelId |-> modelId]]

\* variant of returnConfig: the Error thrown by the switch is dropped
returnConfigDroppingSwitchError(provider, modelId, customProviderOptions, switched) ==
    Return(provider,
           switched.model,
           IF /\ HasKeys(customProviderOptions)
              /\ provider # "bedrock"
              /\ ~HasKeys(switched.providerOptions)
           THEN customProviderOptions
           ELSE switched.providerOptions,
           switched.headers,
           modelId)

\* lines 777-782: the options of the descriptor, and the return
returnConfig(provider, modelId, customProviderOptions, switched) ==
    IF switched.error # NoError THEN Throw(switched.error, provider)
    ELSE Return(provider,
                switched.model,
                IF /\ HasKeys(customProviderOptions)
                   /\ provider # "bedrock"
                   /\ ~HasKeys(switched.providerOptions)
                THEN customProviderOptions
                ELSE switched.providerOptions,
                switched.headers,
                modelId)

\* lines 555-775: with the options built, the switch on the provider
construct(o, e, provider, modelId, built) ==
    IF built.error # NoError THEN Throw(built.error, provider)
    ELSE returnConfig(provider, modelId, built.options,
                      switchProvider(provider, modelId, o, e, built.options))

\* variant of validateAndBuild: server credentials are validated on every call
validateAndBuildAlwaysValidates(o, e, provider, modelId) ==
    IF validateProviderCredentials(provider, e) # NoError
    THEN Throw(validateProviderCredentials(provider, e), provider)
    ELSE construct(o, e, provider, modelId,
                   buildProviderOptions(provider, modelId, e))

\* variant of validateAndBuild: the options are built before the credentials
\* are validated
validateAndBuildOptionsFirst(o, e, provider, modelId) ==
    IF buildProviderOptions(provider, modelId, e).error # NoError
    THEN Throw(buildProviderOptions(provider, modelId, e).error, provider)
    ELSE IF ~isClientOverride(o) /\ validateProviderCredentials(provider, e) # NoError
    THEN Throw(validateProviderCredentials(provider, e), provider)
    ELSE construct(o, e, provider, modelId,
                   buildProviderOptions(provider, modelId, e))

\* lines 543-555: credential validation unless the call is a client override,
\* then buildProviderOptions
validateAndBuild(o, e, provider, modelId) ==
    IF ~isClientOverride(o) /\ validateProviderCredentials(provider, e) # NoError
    THEN Throw(validateProviderCredentials(provider, e), provider)
    ELSE construct(o, e, provider, modelId,
                   buildProviderOptions(provider, modelId, e))

\* lines 493-541: the provider is determined, or the call throws
withProvider(o, e, modelId, determined) ==
    IF determined.error # NoError THEN Throw(determined.error, "")
    ELSE validateAndBuild(o, e, determined.provider, modelId)

\* lines 482-491: the model identifier is required
withModelId(o, e, modelId) ==
    IF modelId = ""
    THEN IF isClientOverride(o)
         THEN Throw(Err("Model ID is required when using custom AI provider", "", <<>>), "")
         ELSE Throw(Err("AI_MODEL environment variable is required", "", <<>>), "")
    ELSE withProvider(o, e, modelId, determineProvider(o, e))

getAIModel(o, e) ==
    IF baseUrlWithoutApiKey(o)
    THEN Throw(Err("API key is required when using a custom base URL", "", <<>>), "")
    ELSE withModelId(o, e, resolveModelId(o, e))

-----------------------------------------------------------------------------
(* Inputs of a call *)

\* the elements of a sequence
SeqToSet(seq) == {seq[i] : i \in 1..Len(seq)}

\* the credential variables of PROVIDER_ENV_VARS, in its key order
CredentialVarSeq ==
    LET withVar == SelectSeq(ProviderName, LAMBDA p : PROVIDER_ENV_VARS(p) # "")
    IN  [i \in 1..Len(withVar) |-> PROVIDER_ENV_VARS(withVar[i])]

CredentialVars == SeqToSet(CredentialVarSeq)

\* the *_BASE_URL variables read by the switch of getAIModel
BaseUrlVarSeq ==
    <<"OPENAI_BASE_URL", "ANTHROPIC_BASE_URL", "GOOGLE_BASE_URL", "AZURE_BASE_URL",
      "OLLAMA_BASE_URL", "OPENROUTER_BASE_URL", "DEEPSEEK_BASE_URL",
      "SILICONFLOW_BASE_URL", "GLM_BASE_URL", "QWEN_BASE_URL", "DOUBAO_BASE_URL",
      "QINIU_BASE_URL", "KIMI_BASE_URL">>

BaseUrlVars == SeqToSet(BaseUrlVarSeq)

\* the variables read by buildProviderOptions
OptionVars ==
    {"OPENAI_REASONING_EFFORT", "OPENAI_REASONING_SUMMARY",
     "ANTHROPIC_THINKING_BUDGET_TOKENS", "ANTHROPIC_THINKING_TYPE",
     "GOOGLE_REASONING_EFFORT", "GOOGLE_THINKING_BUDGET", "GOOGLE_THINKING_LEVEL",
     "GOOGLE_CANDIDATE_COUNT", "GOOGLE_TOP_K", "GOOGLE_TOP_P",
     "AZURE_REASONING_EFFORT", "AZURE_REASONING_SUMMARY",
     "BEDROCK_REASONING_BUDGET_TOKENS", "BEDROCK_REASONING_EFFORT",
     "OLLAMA_ENABLE_THINKING"}

\* every variable of process.env the module reads
EnvVars ==
    {"AI_PROVIDER", "AI_MODEL", "AZURE_RESOURCE_NAME", "AWS_REGION"}
        \cup CredentialVars \cup BaseUrlVars \cup OptionVars

\* process.env with nothing set
EmptyEnv == [v \in EnvVars |-> ""]

\* a provider name outside the catalog
UnknownProvider == "mistral"

\* the names a provider setting is drawn from
ProviderChoices == SeqToSet(ProviderName) \cup {UnknownProvider}

\* at most this many environment variables are set in one environment
MaxEnv == 2

\* the variables the environments of Spec set, and the values they take
SpecVars ==
    <<"AI_PROVIDER", "AI_MODEL", "AZURE_RESOURCE_NAME",
      "ANTHROPIC_THINKING_BUDGET_TOKENS">> \o CredentialVarSeq \o BaseUrlVarSeq

SpecValues ==
    [v \in SeqToSet(SpecVars) |->
    CASE v = "AI_PROVIDER" -> ProviderChoices
      [] v = "AI_MODEL" -> {"gpt-4o"}
      [] v \in BaseUrlVars -> {"https://server.example/v1"}
      [] v = "AZURE_RESOURCE_NAME" -> {"server-resource"}
      [] v = "ANTHROPIC_THINKING_BUDGET_TOKENS" -> {"many"}
      [] OTHER -> {"sk-server"}]

\* the environments that set at most n of the variables vs[i], vs[i+1], ...,
\* each variable v to a value of values[v]
RECURSIVE Envs(_, _, _, _)
Envs(vs, values, i, n) ==
    IF n = 0 \/ i > Len(vs) THEN {EmptyEnv}
    ELSE Envs(vs, values, i + 1, n)
         \cup {[e EXCEPT ![vs[i]] = x] : e \in Envs(vs, values, i + 1, n - 1),
                                         x \in values[vs[i]]}

SpecEnvs == Envs(SpecVars, SpecValues, 1, MaxEnv)

SpecOverrides ==
    [provider : {""} \cup ProviderChoices,
     baseUrl : {"", "https://client.example/v1"},
     apiKey : {"", "sk-client"},
     modelId : {"", "client-model"}]

\* at most this many of the variables read by buildProviderOptions are set in
\* one environment of OptionSpec
MaxOptions == 2

\* the variables read by buildProviderOptions, in the order of its cases
OptionVarSeq ==
    <<"OPENAI_REASONING_EFFORT", "OPENAI_REASONING_SUMMARY",
      "ANTHROPIC_THINKING_BUDGET_TOKENS", "ANTHROPIC_THINKING_TYPE",
      "GOOGLE_REASONING_EFFORT", "GOOGLE_THINKING_BUDGET", "GOOGLE_THINKING_LEVEL",
      "GOOGLE_CANDIDATE_COUNT", "GOOGLE_TOP_K", "GOOGLE_TOP_P",
      "AZURE_REASONING_EFFORT", "AZURE_REASONING_SUMMARY",
      "BEDROCK_REASONING_BUDGET_TOKENS", "BEDROCK_REASONING_EFFORT",
      "OLLAMA_ENABLE_THINKING">>

\* the values the environments of OptionSpec give to those variables: for a
\* level, one of the documented levels and one that is not; for a number, one
\* inside its range, one on each side of it, and text that is not a number or
\* not only a number
OptionValues ==
    [v \in SeqToSet(OptionVarSeq) |->
    CASE v = "OPENAI_REASONING_EFFORT" -> {"high", "extreme"}
      [] v = "OPENAI_REASONING_SUMMARY" -> {"brief", "verbose"}
      [] v = "ANTHROPIC_THINKING_BUDGET_TOKENS" ->
            {"2048", "1023", "64001", "abc", "2048abc"}
      [] v = "ANTHROPIC_THINKING_TYPE" -> {"disabled"}
      [] v = "GOOGLE_REASONING_EFFORT" -> {"low"}
      [] v = "GOOGLE_THINKING_BUDGET" -> {"2048", "1023", "100001", "abc"}
      [] v = "GOOGLE_THINKING_LEVEL" -> {"high"}
      [] v = "GOOGLE_CANDIDATE_COUNT" -> {"2", "0", "9", "1.5"}
      [] v = "GOOGLE_TOP_K" -> {"40", "101", "x"}
      [] v = "GOOGLE_TOP_P" -> {"0.5", "0", "1.5", "-0.1", "abc"}
      [] v = "AZURE_REASONING_EFFORT" -> {"medium", "extreme"}
      [] v = "AZURE_REASONING_SUMMARY" -> {"none", "verbose"}
      [] v = "BEDROCK_REASONING_BUDGET_TOKENS" -> {"2048", "1023", "64001", "abc"}
      [] v = "BEDROCK_REASONING_EFFORT" -> {"low"}
      [] OTHER -> {"true", "false"}]

OptionEnvs == Envs(OptionVarSeq, OptionValues, 1, MaxOptions)

\* the providers OptionSpec resolves: the six with a case of their own in
\* buildProviderOptions, and one without
OptionProviders ==
    {"openai", "anthropic", "google", "azure", "bedrock", "ollama", "deepseek"}

\* the model identifiers OptionSpec asks of each provider: identifiers that
\* match each naming pattern buildProviderOptions and the bedrock case test,
\* and identifiers that match none
ModelIdsOf(p) ==
    CASE p = "openai" -> {"gpt-4o", "o3-mini", "gpt-5"}
      [] p = "anthropic" -> {"claude-sonnet-4-5", "claude-2.1", "deepseek-chat"}
      [] p = "google" ->
            {"gemini-2.5-pro", "gemini-3-pro", "gemini-2.0-flash", "gemini-1.5-pro"}
      [] p = "azure" -> {"gpt-4o", "o3-mini"}
      [] p = "bedrock" ->
            {"us.anthropic.claude-sonnet-4", "claude-profile", "amazon.nova-pro",
             "minimax.minimax-m2"}
      [] p = "ollama" -> {"qwen3"}
      [] OTHER -> {"deepseek-chat"}

\* the server is configured for provider p and model m: AI_PROVIDER, AI_MODEL,
\* the provider's credential variable and, for azure, a resource name
ServerConfigured(e, p, m) ==
    [v \in EnvVars |->
        IF v = "AI_PROVIDER" THEN p
        ELSE IF v = "AI_MODEL" THEN m
        ELSE IF v = PROVIDER_ENV_VARS(p) THEN "sk-server"
        ELSE IF v = "AZURE_RESOURCE_NAME" /\ p = "azure" THEN "server-resource"
        ELSE e[v]]

NoOverrides == [provider |-> "", baseUrl |-> "", apiKey |-> "", modelId |-> ""]

\* the environment and the overrides of a call of OptionSpec for provider p
\* and model m on the option environment e: without overrides on a server
\* configured for p and m, or as a client override on a server that holds
\* the option variables only
OptionEnv(e, p, m, client) == IF client THEN e ELSE ServerConfigured(e, p, m)

OptionOverrides(p, m, client) ==
    IF client
    THEN [provider |-> p, baseUrl |-> "", apiKey |-> "sk-client", modelId |-> m]
    ELSE NoOverrides

NoResult == [error |-> NoError, provider |-> "", value |-> <<>>]

-----------------------------------------------------------------------------
(* The state machine: one call of getAIModel on the chosen inputs *)

\* the settings dialog as mounted and closed, with nothing stored
DialogAtRest ==
    /\ accessCode = ""
    /\ isVerifying = FALSE
    /\ errorMessage = ""
    /\ accessCodeRequired = FALSE
    /\ open = FALSE
    /\ storedAccessCode = ""
    /\ configPending = FALSE
    /\ requests = <<>>
    /\ calls = 0

Init ==
    /\ env \in SpecEnvs
    /\ overrides \in SpecOverrides
    /\ pc = "idle"
    /\ result = NoResult
    /\ DialogAtRest

Call ==
    /\ pc = "idle"
    /\ result' = getAIModel(overrides, env)
    /\ pc' = "done"
    /\ UNCHANGED <<env, overrides>>
    /\ UNCHANGED dialogVars

Next == Call

Spec == Init /\ [][Next]_vars

\* the same call for each provider, model identifier and option environment
\* of OptionSpec; only the providers a client may name are called as a client
\* override
OptionInit ==
    /\ \E e \in OptionEnvs, p \in OptionProviders, client \in BOOLEAN :
          \E m \in ModelIdsOf(p) :
             /\ client => SeqIncludes(ALLOWED_CLIENT_PROVIDERS, p)
             /\ env = OptionEnv(e, p, m, client)
             /\ overrides = OptionOverrides(p, m, client)
    /\ pc = "idle"
    /\ result = NoResult
    /\ DialogAtRest

OptionSpec == OptionInit /\ [][Next]_vars

-----------------------------------------------------------------------------
(* The access-code form of the settings dialog *)

\* index of the last character of s at or before j that is not a blank
RECURSIVE SkipBlanksBack(_, _)
SkipBlanksBack(s, j) ==
    IF j >= 1 /\ CharAt(s, j) = " " THEN SkipBlanksBack(s, j - 1) ELSE j

\* String.prototype.trim
Trim(s) ==
    IF SkipBlanks(s, 1) > Len(s) THEN ""
    ELSE SubSeq(s, SkipBlanks(s, 1), SkipBlanksBack(s, Len(s)))

MaxCalls == 2

\* what the user can have in the input, and what storage can hold at mount
AccessCodeInputs == {"", " ", " abc ", "xyz"}

StoredAccessCodes == {"", "old"}

\* data.message of an answer of /api/verify-access-code, "" when absent
AnswerMessages == {"", "Invalid or missing access code"}

\* a call of handleSave that passed the guard: the accessCode its closure
\* holds, the x-access-code header it sent, and how far it has run
Request(code) ==
    [accessCode |-> code, header |-> Trim(code),
     phase |-> "fetch", outcome |-> "pending"]

Settle(i, outcome) ==
    [requests EXCEPT ![i] = [@ EXCEPT !.phase = "done", !.outcome = outcome]]

\* handleSave up to its first await
handleSave ==
    /\ calls' = calls + 1
    /\ IF ~accessCodeRequired
       THEN UNCHANGED <<errorMessage, isVerifying, requests>>
       ELSE /\ errorMessage' = ""
            /\ isVerifying' = TRUE
            /\ requests' = Append(requests, Request(accessCode))
    /\ UNCHANGED <<accessCode, accessCodeRequired, open, storedAccessCode,
                   configPending>>
    /\ UNCHANGED resolutionVars

\* the mount effect's fetch of /api/config settles, with the flag or an error
ConfigLoaded(required) ==
    /\ configPending
    /\ configPending' = FALSE
    /\ accessCodeRequired' = required
    /\ UNCHANGED <<accessCode, isVerifying, errorMessage, open,
                   storedAccessCode, requests, calls>>
    /\ UNCHANGED resolutionVars

\* the parent opens the dialog and the effect on open reloads the form
OpenDialog ==
    /\ ~open
    /\ open' = TRUE
    /\ accessCode' = storedAccessCode
    /\ errorMessage' = ""
    /\ UNCHANGED <<isVerifying, accessCodeRequired, storedAccessCode,
                   configPending, requests, calls>>
    /\ UNCHANGED resolutionVars

\* the user dismisses the dialog
CloseDialog ==
    /\ open
    /\ open' = FALSE
    /\ UNCHANGED <<accessCode, isVerifying, errorMessage, accessCodeRequired,
                   storedAccessCode, configPending, requests, calls>>
    /\ UNCHANGED resolutionVars

\* onChange of the input
SetAccessCode(value) ==
    /\ open
    /\ accessCodeRequired
    /\ value # accessCode
    /\ accessCode' = value
    /\ UNCHANGED <<isVerifying, errorMessage, accessCodeRequired, open,
                   storedAccessCode, configPending, requests, calls>>
    /\ UNCHANGED resolutionVars

\* onClick of the Save button, which is disabled while verifying or blank
ClickSave ==
    /\ open
    /\ accessCodeRequired
    /\ ~(isVerifying \/ Trim(accessCode) = "")
    /\ calls < MaxCalls
    /\ handleSave

\* handleKeyDown with e.key === "Enter" on the input
handleKeyDown ==
    /\ open
    /\ accessCodeRequired
    /\ calls < MaxCalls
    /\ handleSave

\* handleSave run while no access code is required
SaveNotRequired ==
    /\ ~accessCodeRequired
    /\ calls < MaxCalls
    /\ handleSave

\* await fetch(...) resolves
FetchResolves(i) ==
    /\ requests[i].phase = "fetch"
    /\ requests' = [requests EXCEPT ![i] = [@ EXCEPT !.phase = "json"]]
    /\ UNCHANGED <<accessCode, isVerifying, errorMessage, accessCodeRequired,
                   open, storedAccessCode, configPending, calls>>
    /\ UNCHANGED resolutionVars

\* await fetch(...) or await response.json() rejects: catch, then finally
RequestFails(i) ==
    /\ requests[i].phase \in {"fetch", "json"}
    /\ requests' = Settle(i, "failed")
    /\ errorMessage' = "Failed to verify access code"
    /\ isVerifying' = FALSE
    /\ UNCHANGED <<accessCode, accessCodeRequired, open, storedAccessCode,
                   configPending, calls>>
    /\ UNCHANGED resolutionVars

\* await response.json() resolves with data.valid falsy: return, then finally
AnswerInvalid(i, message) ==
    /\ requests[i].phase = "json"
    /\ requests' = Settle(i, "invalid")
    /\ errorMessage' = IF message # "" THEN message ELSE "Invalid access code"
    /\ isVerifying' = FALSE
    /\ UNCHANGED <<accessCode, accessCodeRequired, open, storedAccessCode,
                   configPending, calls>>
    /\ UNCHANGED resolutionVars

\* AnswerValid reading the input as it is when the answer arrives
AnswerValidCurrentInput(i) ==
    /\ requests[i].phase = "json"
    /\ requests' = Settle(i, "valid")
    /\ storedAccessCode' = Trim(accessCode)
    /\ open' = FALSE
    /\ isVerifying' = FALSE
    /\ UNCHANGED <<accessCode, errorMessage, accessCodeRequired,
                   configPending, calls>>
    /\ UNCHANGED resolutionVars

\* await response.json() resolves with data.valid truthy: store, close, finally
AnswerValid(i) ==
    /\ requests[i].phase = "json"
    /\ requests' = Settle(i, "valid")
    /\ storedAccessCode' = Trim(requests[i].accessCode)
    /\ open' = FALSE
    /\ isVerifying' = FALSE
    /\ UNCHANGED <<accessCode, errorMessage, accessCodeRequired,
                   configPending, calls>>
    /\ UNCHANGED resolutionVars

\* the component as mounted: the flag cached in storage, or being fetched
DialogInit ==
    /\ env = EmptyEnv
    /\ overrides = NoOverrides
    /\ pc = "idle"
    /\ result = NoResult
    /\ accessCode = ""
    /\ isVerifying = FALSE
    /\ errorMessage = ""
    /\ \/ configPending = FALSE /\ accessCodeRequired \in BOOLEAN
       \/ configPending = TRUE /\ accessCodeRequired = FALSE
    /\ open = FALSE
    /\ storedAccessCode \in StoredAccessCodes
    /\ requests = <<>>
    /\ calls = 0

DialogNext ==
    \/ \E required \in BOOLEAN : ConfigLoaded(required)
    \/ OpenDialog
    \/ CloseDialog
    \/ \E value \in AccessCodeInputs : SetAccessCode(value)
    \/ ClickSave
    \/ handleKeyDown
    \/ SaveNotRequired
    \/ \E i \in DOMAIN requests : FetchResolves(i)
    \/ \E i \in DOMAIN requests : RequestFails(i)
    \/ \E i \in DOMAIN requests, message \in AnswerMessages :
           AnswerInvalid(i, message)
    \/ \E i \in DOMAIN requests : AnswerValid(i)

DialogSpec == DialogInit /\ [][DialogNext]_vars

-----------------------------------------------------------------------------
(* Vocabulary of the properties *)

Done == pc = "done"

\* the call returned a ModelConfig
Returned == Done /\ result.error = NoError

Kind == result.error.kind

SecurityError == "API key is required when using a custom base URL"
MissingModelErrors ==
    {"Model ID is required when using custom AI provider",
     "AI_MODEL environment variable is required"}
UnsupportedProviderError == "Invalid provider"
NoProviderConfiguredError == "No AI provider configured"
AmbiguousProviderError == "Multiple AI providers configured"
MissingVariableError == "environment variable is required"
AzureEndpointError == "Azure requires either AZURE_BASE_URL or AZURE_RESOURCE_NAME"
CredentialErrors == {MissingVariableError, AzureEndpointError}

UnknownProviderError == "Unknown AI provider"

\* the fourteen names of the catalog
Catalog == SeqToSet(ProviderName)

\* the SDK entry points that construct a client of provider p
FactoriesOf(p) ==
    CASE p = "bedrock" -> {"createAmazonBedrock"}
      [] p = "openai" -> {"createOpenAI", "openai"}
      [] p = "anthropic" -> {"createAnthropic"}
      [] p = "google" -> {"createGoogleGenerativeAI", "google"}
      [] p = "azure" -> {"createAzure", "azure"}
      [] p = "ollama" -> {"createOllama", "ollama"}
      [] p = "openrouter" -> {"createOpenRouter"}
      [] p = "deepseek" -> {"createDeepSeek", "deepseek"}
      [] OTHER -> {"createOpenAI"}

\* the twelve names a client may select
ClientAllowed ==
    {"openai", "anthropic", "google", "azure", "openrouter", "deepseek",
     "siliconflow", "glm", "qwen", "doubao", "qiniu", "kimi"}

\* the twelve providers that have a required credential variable
RequiresCredential ==
    {"openai", "anthropic", "google", "azure", "openrouter", "deepseek",
     "siliconflow", "glm", "qwen", "doubao", "qiniu", "kimi"}

\* the call got past the security gate and has a model identifier
ReachesSelection ==
    /\ ~(overrides.baseUrl # "" /\ overrides.apiKey = "")
    /\ (overrides.modelId # "" \/ env["AI_MODEL"] # "")

\* both fields of a client override are present
BothOverrideFields == overrides.provider # "" /\ overrides.apiKey # ""

\* provider p qualifies for auto-detection in the environment of the call
Qualifies(p) ==
    /\ PROVIDER_ENV_VARS(p) # ""
    /\ env[PROVIDER_ENV_VARS(p)] # ""
    /\ p = "azure" => (env["AZURE_BASE_URL"] # "" \/ env["AZURE_RESOURCE_NAME"] # "")

Qualified == {p \in SeqToSet(ProviderName) : Qualifies(p)}

\* neither an override provider nor AI_PROVIDER: auto-detection decides
AutoDetects ==
    ReachesSelection /\ overrides.provider = "" /\ env["AI_PROVIDER"] = ""

\* the settings object handed to the client constructor
Settings == result.value.model.settings

\* the provider options and the model identifier of the descriptor returned
Options == result.value.providerOptions
ModelId == result.value.modelId

\* the call returned a descriptor and provider p governed it
Governs(p) == Returned /\ result.provider = p

\* obj has the key k
Has(obj, k) == k \in DOMAIN obj

\* the identifier contains one of the markers
ContainsAny(id, markers) == \E marker \in markers : Includes(id, marker)

\* the identifier names an OpenAI reasoning model
ReasoningCapable(id) == ContainsAny(id, {"o1", "o3", "gpt-5"})

\* the closed sets of levels of the effort and summary settings
LevelsOf(v) ==
    CASE v = "OPENAI_REASONING_EFFORT" -> {"minimal", "low", "medium", "high"}
      [] v = "AZURE_REASONING_EFFORT" -> {"low", "medium", "high"}
      [] OTHER -> {"none", "brief", "detailed"}

EffortVarOf(p) == IF p = "openai" THEN "OPENAI_REASONING_EFFORT" ELSE "AZURE_REASONING_EFFORT"
SummaryVarOf(p) == IF p = "openai" THEN "OPENAI_REASONING_SUMMARY" ELSE "AZURE_REASONING_SUMMARY"

\* the integer settings: the variable, the provider whose family reads it and
\* the closed range of its values
IntegerSettings ==
    {[var |-> "ANTHROPIC_THINKING_BUDGET_TOKENS", provider |-> "anthropic",
      min |-> 1024, max |-> 64000],
     [var |-> "GOOGLE_THINKING_BUDGET", provider |-> "google",
      min |-> 1024, max |-> 100000],
     [var |-> "BEDROCK_REASONING_BUDGET_TOKENS", provider |-> "bedrock",
      min |-> 1024, max |-> 64000],
     [var |-> "GOOGLE_CANDIDATE_COUNT", provider |-> "google", min |-> 1, max |-> 8],
     [var |-> "GOOGLE_TOP_K", provider |-> "google", min |-> 1, max |-> 100]}

\* the text is an integer and nothing else: an optional sign and digits
IsIntegerText(s) ==
    LET d == IF Len(s) >= 1 /\ CharAt(s, 1) \in {"-", "+"} THEN 2 ELSE 1
    IN  d <= Len(s) /\ DigitsEnd(s, d) = Len(s) + 1

\* the text is a decimal number and nothing else: an optional sign, digits
\* and an optional fraction, with a digit somewhere
IsDecimalText(s) ==
    LET d == IF Len(s) >= 1 /\ CharAt(s, 1) \in {"-", "+"} THEN 2 ELSE 1
        e == DigitsEnd(s, d)
        dot == e <= Len(s) /\ CharAt(s, e) = "."
        f == IF dot THEN DigitsEnd(s, e + 1) ELSE e
    IN  f = Len(s) + 1 /\ f > (IF dot THEN d + 1 ELSE d)

\* the integer an integer text denotes
IntegerOf(s) ==
    LET d == IF CharAt(s, 1) \in {"-", "+"} THEN 2 ELSE 1
    IN  IF CharAt(s, 1) = "-" THEN 0 - DigitsValue(s, d, Len(s) + 1)
        ELSE DigitsValue(s, d, Len(s) + 1)

\* the integers the options of the descriptor carry for a variable
Attached(var) ==
    CASE var = "ANTHROPIC_THINKING_BUDGET_TOKENS" ->
            IF Has(Options, "anthropic") /\ Has(Options.anthropic, "thinking")
            THEN {Options.anthropic.thinking.budgetTokens} ELSE {}
      [] var = "GOOGLE_THINKING_BUDGET" ->
            IF /\ Has(Options, "google") /\ Has(Options.google, "thinkingConfig")
               /\ Has(Options.google.thinkingConfig, "thinkingBudget")
            THEN {Options.google.thinkingConfig.thinkingBudget} ELSE {}
      [] var = "BEDROCK_REASONING_BUDGET_TOKENS" ->
            IF /\ Has(Options, "bedrock") /\ Has(Options.bedrock, "reasoningConfig")
               /\ Has(Options.bedrock.reasoningConfig, "budgetTokens")
            THEN {Options.bedrock.reasoningConfig.budgetTokens} ELSE {}
      [] var = "GOOGLE_CANDIDATE_COUNT" ->
            IF Has(Options, "google") /\ Has(Options.google, "candidateCount")
            THEN {Options.google.candidateCount} ELSE {}
      [] var = "GOOGLE_TOP_K" ->
            IF Has(Options, "google") /\ Has(Options.google, "topK")
            THEN {Options.google.topK} ELSE {}

\* the identifier names a Gemini generation that thinks
GeminiThinking(id) == ContainsAny(id, {"gemini-2", "gemini-3", "gemini2", "gemini3"})

\* the thinkingConfig of the google options, <<>> when there is none
ThinkingConfig ==
    IF Has(Options, "google") /\ Has(Options.google, "thinkingConfig")
    THEN Options.google.thinkingConfig ELSE <<>>

\* the google object of the options, <<>> when there is none
GoogleOptions == IF Has(Options, "google") THEN Options.google ELSE <<>>

\* the sampling settings of google and the field each one sets
SamplingFields ==
    {<<"GOOGLE_CANDIDATE_COUNT", "candidateCount">>, <<"GOOGLE_TOP_K", "topK">>,
     <<"GOOGLE_TOP_P", "topP">>}

\* the bedrock object of the options, <<>> when there is none
BedrockOptions == IF Has(Options, "bedrock") THEN Options.bedrock ELSE <<>>

\* the reasoningConfig of the bedrock options, <<>> when there is none
ReasoningConfig ==
    IF Has(BedrockOptions, "reasoningConfig") THEN BedrockOptions.reasoningConfig
    ELSE <<>>

\* the sub-families of bedrock model identifiers
ClaudeFamily(id) == ContainsAny(id, {"claude", "anthropic"})
NovaFamily(id) == ContainsAny(id, {"nova", "amazon"})

\* the providers served by the generic OpenAI-compatible constructor
OpenAICompatible == {"siliconflow", "glm", "qwen", "doubao", "qiniu", "kimi"}

\* the endpoint variable of a provider
BaseUrlVarOf(p) ==
    CASE p = "openai" -> "OPENAI_BASE_URL"
      [] p = "anthropic" -> "ANTHROPIC_BASE_URL"
      [] p = "google" -> "GOOGLE_BASE_URL"
      [] p = "azure" -> "AZURE_BASE_URL"
      [] p = "ollama" -> "OLLAMA_BASE_URL"
      [] p = "openrouter" -> "OPENROUTER_BASE_URL"
      [] p = "deepseek" -> "DEEPSEEK_BASE_URL"
      [] p = "siliconflow" -> "SILICONFLOW_BASE_URL"
      [] p = "glm" -> "GLM_BASE_URL"
      [] p = "qwen" -> "QWEN_BASE_URL"
      [] p = "doubao" -> "DOUBAO_BASE_URL"
      [] p = "qiniu" -> "QINIU_BASE_URL"
      [] p = "kimi" -> "KIMI_BASE_URL"

\* the fixed default endpoint of a provider, "" when it has none
DefaultEndpointOf(p) ==
    CASE p = "anthropic" -> "https://api.anthropic.com/v1"
      [] p = "siliconflow" -> "https://api.siliconflow.com/v1"
      [] p = "glm" -> "https://open.bigmodel.cn/api/paas/v4"
      [] p = "qwen" -> "https://dashscope.aliyun.com/compatible-mode/v1"
      [] p = "doubao" -> "https://ark.cn-beijing.volces.com/api/v3"
      [] p = "qiniu" -> "https://api.qiniucdn.com/v1"
      [] p = "kimi" -> "https://api.moonshot.cn/v1"
      [] OTHER -> ""

\* the first of the three that is present
FirstOf(x, y, z) == IF x # "" THEN x ELSE IF y # "" THEN y ELSE z

\* the SDK's shared default client was used: no settings were passed
DefaultClient == Settings = <<>>

\* the client of the call is the SDK's shared default client of the provider
UsesDefaultClient ==
    DefaultClient /\ result.value.model.factory = result.provider

\* an override credential or a custom endpoint is present for the provider of
\* the call; for azure the resource name is an endpoint setting
CustomParameters ==
    \/ overrides.apiKey # ""
    \/ overrides.baseUrl # ""
    \/ env[BaseUrlVarOf(result.provider)] # ""
    \/ result.provider = "azure" /\ env["AZURE_RESOURCE_NAME"] # ""

NumericErrors ==
    {"must be a valid integer", "must be >= min", "must be <= max",
     "must be a number between 0 and 1"}

\* the failure condition of each stage of a call, on its inputs
GateFails == overrides.baseUrl # "" /\ overrides.apiKey = ""

ModelIdMissing == overrides.modelId = "" /\ env["AI_MODEL"] = ""

SelectionFails ==
    IF overrides.provider # "" THEN overrides.provider \notin ClientAllowed
    ELSE env["AI_PROVIDER"] = "" /\ Cardinality(Qualified) # 1

\* the provider selection yields when it does not fail
Selected ==
    IF overrides.provider # "" THEN overrides.provider
    ELSE IF env["AI_PROVIDER"] # "" THEN env["AI_PROVIDER"]
    ELSE CHOOSE p \in Qualified : TRUE

CredentialsFail ==
    /\ ~BothOverrideFields
    /\ \/ Selected \in RequiresCredential /\ env[PROVIDER_ENV_VARS(Selected)] = ""
       \/ /\ Selected = "azure"
          /\ env["AZURE_BASE_URL"] = "" /\ env["AZURE_RESOURCE_NAME"] = ""

\* an integer setting of the selected provider is present and is not an
\* integer of its range
OptionsFail ==
    \E s \in IntegerSettings :
        /\ s.provider = Selected
        /\ env[s.var] # ""
        /\ ~(/\ IsIntegerText(env[s.var])
             /\ IntegerOf(env[s.var]) >= s.min
             /\ IntegerOf(env[s.var]) <= s.max)

ConstructionFails == Selected \notin Catalog

-----------------------------------------------------------------------------
(* Properties *)

\* C1: a call whose overrides carry a baseUrl and no apiKey ends with the
\* security error, whatever the other inputs are; a call whose baseUrl is
\* absent or whose apiKey is present never ends with it.
C1_SecurityGateFirst ==
    Done => ((overrides.baseUrl # "" /\ overrides.apiKey = "") <=> Kind = SecurityError)

\* the gate wins while the model identifier is missing, the override provider
\* is not allowed and a numeric setting is malformed
C1_Witness ==
    /\ Done
    /\ Kind = SecurityError
    /\ overrides.provider = "bedrock"
    /\ overrides.modelId = "" /\ env["AI_MODEL"] = ""
    /\ env["ANTHROPIC_THINKING_BUDGET_TOKENS"] # ""
    /\ env["ANTHROPIC_API_KEY"] = ""

\* C2: in a successful resolution, a client constructed on the endpoint given
\* in overrides.baseUrl is given overrides.apiKey as its credential, and never
\* a value of a credential variable of the server environment.
C2_ClientEndpointGetsClientKey ==
    (/\ Returned
     /\ overrides.baseUrl # ""
     /\ "baseURL" \in DOMAIN Settings
     /\ Settings.baseURL = overrides.baseUrl)
    => /\ "apiKey" \in DOMAIN Settings
       /\ Settings.apiKey = overrides.apiKey
       /\ Settings.apiKey # ""
       /\ \A v \in CredentialVars : env[v] # "" => Settings.apiKey # env[v]

\* a client endpoint is used while the server holds a key for the provider
C2_Witness ==
    /\ Returned
    /\ overrides.baseUrl # ""
    /\ "baseURL" \in DOMAIN Settings
    /\ Settings.baseURL = overrides.baseUrl
    /\ PROVIDER_ENV_VARS(result.provider) # ""
    /\ env[PROVIDER_ENV_VARS(result.provider)] # ""

\* C3 (as claimed): when overrides.provider is present without overrides.apiKey
\* it does not govern the call: no allow-list check is applied to it and the
\* provider is AI_PROVIDER if set, otherwise the auto-detected one.
C3_ProviderWithoutKeyIgnored ==
    (/\ Done
     /\ ReachesSelection
     /\ overrides.provider # ""
     /\ overrides.apiKey = "")
    => /\ Kind # UnsupportedProviderError
       /\ env["AI_PROVIDER"] # "" => result.provider = env["AI_PROVIDER"]
       /\ (env["AI_PROVIDER"] = "" /\ Cardinality(Qualified) = 1)
             => result.provider \in Qualified

\* C4: a client override (provider and apiKey present, model identifier
\* available) naming a provider outside the twelve allowed names ends with the
\* unsupported-provider error; a successful resolution under a client override
\* is governed by the override provider, which is one of the twelve.
C4_DisallowedOverrideFails ==
    (Done /\ ReachesSelection /\ BothOverrideFields)
    => /\ overrides.provider \notin ClientAllowed
            => /\ Kind = UnsupportedProviderError
               /\ result.error.var = overrides.provider
               /\ result.value = <<>>
       /\ Returned
            => /\ result.provider = overrides.provider
               /\ result.provider \in ClientAllowed

\* the disallowed provider is the one the server is configured for
C4_Witness ==
    /\ Done
    /\ ReachesSelection
    /\ BothOverrideFields
    /\ overrides.provider = "bedrock"
    /\ env["AI_PROVIDER"] = "bedrock"
    /\ Kind = UnsupportedProviderError

\* C5 (as claimed): when no client override applies (overrides.provider and
\* overrides.apiKey are not both present) and AI_PROVIDER is set, the provider
\* of the call is the value of AI_PROVIDER, with no allow-list check and
\* without auto-detection.
C5_EnvProviderVerbatim ==
    (/\ Done
     /\ ReachesSelection
     /\ ~BothOverrideFields
     /\ env["AI_PROVIDER"] # "")
    => /\ result.provider = env["AI_PROVIDER"]
       /\ Kind \notin {UnsupportedProviderError, NoProviderConfiguredError,
                       AmbiguousProviderError}

\* C6: with no override provider and no AI_PROVIDER, when exactly one provider
\* qualifies for auto-detection that provider governs the call, and the call
\* fails neither in provider selection nor in credential validation.
C6_SingleQualifiedGoverns ==
    (Done /\ AutoDetects /\ Cardinality(Qualified) = 1)
    => /\ result.provider \in Qualified
       /\ Kind \notin {UnsupportedProviderError, NoProviderConfiguredError,
                       AmbiguousProviderError} \cup CredentialErrors

\* AZURE_API_KEY without an endpoint setting plus one other key selects the other
C6_Witness ==
    /\ Returned
    /\ AutoDetects
    /\ env["AZURE_API_KEY"] # ""
    /\ env["AZURE_BASE_URL"] = "" /\ env["AZURE_RESOURCE_NAME"] = ""
    /\ env["OPENAI_API_KEY"] # ""
    /\ result.provider = "openai"

\* C7: with no override provider and no AI_PROVIDER, when two or more providers
\* qualify the call ends with the ambiguous-provider error, whose list holds
\* every provider whose credential variable is set, and no provider is chosen.
C7_AmbiguousFailsClosed ==
    (Done /\ AutoDetects /\ Cardinality(Qualified) >= 2)
    => /\ Kind = AmbiguousProviderError
       /\ \A p \in SeqToSet(ProviderName) :
              (PROVIDER_ENV_VARS(p) # "" /\ env[PROVIDER_ENV_VARS(p)] # "")
                  => SeqIncludes(result.error.providers, p)
       /\ result.provider = ""
       /\ result.value = <<>>

C7_Witness ==
    /\ Done
    /\ AutoDetects
    /\ env["OPENAI_API_KEY"] # "" /\ env["KIMI_API_KEY"] # ""
    /\ Kind = AmbiguousProviderError
    /\ result.error.providers = <<"openai", "kimi">>

\* C8 (as claimed): with no override provider and no AI_PROVIDER, when no
\* provider qualifies the call ends with the no-provider-configured error,
\* never with the ambiguous-provider error.
C8_NoneQualifiedNoProvider ==
    (Done /\ AutoDetects /\ Qualified = {})
    => Kind = NoProviderConfiguredError

\* C9: when a provider with a required credential variable governs a call that
\* is not a client override and the variable is unset, the call ends with the
\* credential error naming that variable and returns nothing; for bedrock and
\* ollama the missing-variable error never occurs.
C9_MissingCredentialNamed ==
    (Done /\ ~BothOverrideFields /\ result.provider # "")
    => /\ (/\ result.provider \in RequiresCredential
           /\ env[PROVIDER_ENV_VARS(result.provider)] = "")
            => /\ Kind = MissingVariableError
               /\ result.error.var = PROVIDER_ENV_VARS(result.provider)
               /\ result.value = <<>>
       /\ result.provider \in {"bedrock", "ollama"} => Kind \notin CredentialErrors

C9_Witness ==
    /\ Done
    /\ overrides.provider = ""
    /\ env["AI_PROVIDER"] = "kimi"
    /\ env["KIMI_API_KEY"] = ""
    /\ Kind = MissingVariableError
    /\ result.error.var = "KIMI_API_KEY"

\* C10: when azure governs a call that is not a client override and
\* AZURE_API_KEY is set, the call ends with the credential error if neither
\* AZURE_BASE_URL nor AZURE_RESOURCE_NAME is set, and passes credential
\* validation if at least one of them is.
C10_AzureNeedsEndpoint ==
    (/\ Done
     /\ ~BothOverrideFields
     /\ result.provider = "azure"
     /\ env["AZURE_API_KEY"] # "")
    => IF env["AZURE_BASE_URL"] = "" /\ env["AZURE_RESOURCE_NAME"] = ""
       THEN Kind = AzureEndpointError /\ result.value = <<>>
       ELSE Kind \notin CredentialErrors

C10_Witness ==
    /\ Done
    /\ env["AI_PROVIDER"] = "azure"
    /\ env["AZURE_API_KEY"] # ""
    /\ env["AZURE_BASE_URL"] = "" /\ env["AZURE_RESOURCE_NAME"] = ""
    /\ Kind = AzureEndpointError

\* C11: when the call is a client override (overrides.provider one of the
\* twelve allowed names and overrides.apiKey present), server-side credential
\* validation is skipped: the call never ends with a credential error,
\* whatever credential variables of the server are unset, azure without
\* AZURE_BASE_URL and AZURE_RESOURCE_NAME included.
C11_ClientOverrideSkipsValidation ==
    (Done /\ BothOverrideFields /\ overrides.provider \in ClientAllowed)
    => Kind \notin CredentialErrors

\* a client override of azure resolves on a server without any azure setting
C11_Witness ==
    /\ Returned
    /\ BothOverrideFields
    /\ overrides.provider = "azure"
    /\ result.provider = "azure"
    /\ env["AZURE_API_KEY"] = ""
    /\ env["AZURE_BASE_URL"] = "" /\ env["AZURE_RESOURCE_NAME"] = ""

\* C12: every successful resolution is governed by one provider, which is one
\* of the fourteen catalog names and the one whose client was constructed.
\* When AI_PROVIDER holds a name outside the catalog and no override provider
\* is given, nothing is returned, and a call that reaches provider selection
\* ends with the unknown-provider error naming it.
C12_GoverningProviderInCatalog ==
    /\ Returned
        => /\ result.provider \in Catalog
           /\ result.value.model.factory \in FactoriesOf(result.provider)
    /\ (/\ Done
        /\ overrides.provider = ""
        /\ env["AI_PROVIDER"] # ""
        /\ env["AI_PROVIDER"] \notin Catalog)
        => /\ result.value = <<>>
           /\ Kind # "none"
           /\ ReachesSelection
                => /\ Kind = UnknownProviderError
                   /\ result.error.var = env["AI_PROVIDER"]

C12_Witness ==
    /\ Done
    /\ overrides.provider = ""
    /\ env["AI_PROVIDER"] = UnknownProvider
    /\ env["AI_MODEL"] # ""
    /\ Kind = UnknownProviderError
    /\ result.value = <<>>

\* C13: whenever resolution succeeds the returned modelId is non-empty and is
\* overrides.modelId if that is non-empty, AI_MODEL otherwise.  When both are
\* empty nothing is returned: the call ends with a missing-model error, or
\* with the security error when the gate stops it first.
C13_ModelIdResolved ==
    /\ Returned
        => /\ result.value.modelId # ""
           /\ result.value.modelId =
                 (IF overrides.modelId # "" THEN overrides.modelId ELSE env["AI_MODEL"])
           /\ result.value.model.modelId = result.value.modelId
    /\ (Done /\ overrides.modelId = "" /\ env["AI_MODEL"] = "")
        => /\ result.value = <<>>
           /\ Kind \in MissingModelErrors \cup {SecurityError}
           /\ ~(overrides.baseUrl # "" /\ overrides.apiKey = "")
                => Kind \in MissingModelErrors

\* the override model identifier wins over AI_MODEL
C13_Witness ==
    /\ Returned
    /\ overrides.modelId # ""
    /\ env["AI_MODEL"] # ""
    /\ overrides.modelId # env["AI_MODEL"]
    /\ result.value.modelId = overrides.modelId

\* C14: for provider openai, a model identifier that contains "o1", "o3" or
\* "gpt-5" always gets a non-empty openai options object whose
\* reasoningSummary is OPENAI_REASONING_SUMMARY, or "detailed" when that is
\* unset; an identifier that contains none of them, with neither
\* OPENAI_REASONING_EFFORT nor OPENAI_REASONING_SUMMARY set, gets no provider
\* options.
C14_OpenAIReasoningSummaryDefault ==
    Governs("openai")
    => /\ ReasoningCapable(ModelId)
            => /\ Has(Options, "openai")
               /\ Has(Options.openai, "reasoningSummary")
               /\ Options.openai.reasoningSummary =
                     (IF env["OPENAI_REASONING_SUMMARY"] # ""
                      THEN env["OPENAI_REASONING_SUMMARY"] ELSE "detailed")
       /\ (/\ ~ReasoningCapable(ModelId)
           /\ env["OPENAI_REASONING_EFFORT"] = ""
           /\ env["OPENAI_REASONING_SUMMARY"] = "")
            => Options = <<>>

\* a reasoning model without a summary setting gets the default summary
C14_Witness ==
    /\ Governs("openai")
    /\ ModelId = "gpt-5"
    /\ env["OPENAI_REASONING_SUMMARY"] = ""
    /\ env["OPENAI_REASONING_EFFORT"] = ""
    /\ Options = [openai |-> [reasoningSummary |-> "detailed"]]

\* C15 (as claimed): the effort and summary settings of openai and azure are
\* validated against their closed sets of levels: while the provider governs,
\* a value outside the set makes the call fail, and a descriptor returned
\* never carries a reasoningEffort or reasoningSummary outside its set.
C15_LevelsValidated ==
    \A p \in {"openai", "azure"} :
        Governs(p)
        => /\ env[EffortVarOf(p)] # "" => env[EffortVarOf(p)] \in LevelsOf(EffortVarOf(p))
           /\ env[SummaryVarOf(p)] # "" => env[SummaryVarOf(p)] \in LevelsOf(SummaryVarOf(p))
           /\ (Has(Options, p) /\ Has(Options[p], "reasoningEffort"))
                => Options[p].reasoningEffort \in LevelsOf(EffortVarOf(p))
           /\ (Has(Options, p) /\ Has(Options[p], "reasoningSummary"))
                => Options[p].reasoningSummary \in LevelsOf(SummaryVarOf(p))

\* C16 (as claimed): the numeric settings are fail-fast, never clamped or
\* defaulted.  While its provider governs, a descriptor is returned only if
\* each integer setting that is present is an integer inside its range, and
\* GOOGLE_TOP_P a number in [0,1], whatever the model identifier; every number
\* the options carry is the configured one.
C16_NumericSettingsFailFast ==
    /\ \A s \in IntegerSettings :
          (Governs(s.provider) /\ env[s.var] # "")
          => /\ IsIntegerText(env[s.var])
             /\ IntegerOf(env[s.var]) >= s.min
             /\ IntegerOf(env[s.var]) <= s.max
             /\ \A n \in Attached(s.var) : n = IntegerOf(env[s.var])
    /\ (Governs("google") /\ env["GOOGLE_TOP_P"] # "")
          => /\ IsDecimalText(env["GOOGLE_TOP_P"])
             /\ Has(Options, "google") /\ Has(Options.google, "topP")
             /\ Options.google.topP.num >= 0
             /\ Options.google.topP.num <= Options.google.topP.den

C18_AnthropicHeadersOnly ==
    Returned
    => IF result.provider = "anthropic"
       THEN /\ DOMAIN result.value.headers = {"anthropic-beta"}
            /\ result.value.headers["anthropic-beta"] =
                  "fine-grained-tool-streaming-2025-05-14"
       ELSE result.value.headers = <<>>

\* the headers are attached under a client override with its own endpoint
C18_Witness ==
    /\ Governs("anthropic")
    /\ BothOverrideFields
    /\ overrides.baseUrl # ""
    /\ overrides.modelId # ""
    /\ result.value.headers # <<>>

\* C19 (as claimed): for provider anthropic a thinking object is attached to
\* the options only if ANTHROPIC_THINKING_BUDGET_TOKENS is set and the model
\* identifier matches the capable-model naming pattern.  The source has no
\* such pattern for anthropic; whatever the pattern is, an identifier that
\* does not name a Claude model cannot match it.
C19_AnthropicThinkingNeedsCapableModel ==
    (/\ Governs("anthropic")
     /\ Has(Options, "anthropic")
     /\ Has(Options.anthropic, "thinking"))
    => /\ env["ANTHROPIC_THINKING_BUDGET_TOKENS"] # ""
       /\ Includes(ModelId, "claude")

\* C20: for provider google and a model identifier that contains gemini-2,
\* gemini-3, gemini2 or gemini3 the options always hold
\* thinkingConfig.includeThoughts = true, whether or not GOOGLE_THINKING_BUDGET
\* or GOOGLE_THINKING_LEVEL is set; a thinkingConfig never holds thinkingBudget
\* and thinkingLevel together; thinkingBudget is attached only to 2.5
\* identifiers and thinkingLevel only to gemini-3 identifiers.
C20_GoogleThinkingConfig ==
    Governs("google")
    => /\ GeminiThinking(ModelId)
            => /\ Has(ThinkingConfig, "includeThoughts")
               /\ ThinkingConfig.includeThoughts = TRUE
       /\ ~(Has(ThinkingConfig, "thinkingBudget") /\ Has(ThinkingConfig, "thinkingLevel"))
       /\ Has(ThinkingConfig, "thinkingBudget")
            => /\ ContainsAny(ModelId, {"2.5", "2-5"})
               /\ env["GOOGLE_THINKING_BUDGET"] # ""
       /\ Has(ThinkingConfig, "thinkingLevel")
            => /\ ContainsAny(ModelId, {"gemini-3", "gemini3"})
               /\ ThinkingConfig.thinkingLevel = env["GOOGLE_THINKING_LEVEL"]

\* both settings are present and only the budget is attached
C20_Witness ==
    /\ Governs("google")
    /\ ModelId = "gemini-2.5-pro"
    /\ env["GOOGLE_THINKING_BUDGET"] = "2048"
    /\ env["GOOGLE_THINKING_LEVEL"] = "high"
    /\ ThinkingConfig = [includeThoughts |-> TRUE, thinkingBudget |-> 2048]

\* C21: for provider google, reasoning fields and sampling fields are
\* additive.  In every descriptor returned the google options hold
\* thinkingConfig exactly when the identifier is of a thinking generation,
\* reasoningEffort exactly when it is not and GOOGLE_REASONING_EFFORT is set,
\* and the field of a sampling setting exactly when that setting is set: the
\* presence of each field is independent of the settings of the other kind.
C21_GoogleSamplingAdditive ==
    Governs("google")
    => /\ Has(GoogleOptions, "thinkingConfig") <=> GeminiThinking(ModelId)
       /\ Has(GoogleOptions, "reasoningEffort")
            <=> (~GeminiThinking(ModelId) /\ env["GOOGLE_REASONING_EFFORT"] # "")
       /\ Has(GoogleOptions, "reasoningEffort")
            => GoogleOptions.reasoningEffort = env["GOOGLE_REASONING_EFFORT"]
       /\ \A sf \in SamplingFields : Has(GoogleOptions, sf[2]) <=> env[sf[1]] # ""
       /\ (Has(GoogleOptions, "topK") /\ IsIntegerText(env["GOOGLE_TOP_K"]))
            => GoogleOptions.topK = IntegerOf(env["GOOGLE_TOP_K"])
       /\ (Has(GoogleOptions, "candidateCount")
              /\ IsIntegerText(env["GOOGLE_CANDIDATE_COUNT"]))
            => GoogleOptions.candidateCount = IntegerOf(env["GOOGLE_CANDIDATE_COUNT"])

\* a thinkingConfig and two sampling fields in one google object
C21_Witness ==
    /\ Governs("google")
    /\ ModelId = "gemini-2.5-pro"
    /\ env["GOOGLE_TOP_K"] = "40"
    /\ env["GOOGLE_TOP_P"] = "0.5"
    /\ DOMAIN GoogleOptions = {"thinkingConfig", "topK", "topP"}
    /\ GoogleOptions.topK = 40

\* C22 (as claimed): for provider bedrock the shape of a reasoning object
\* depends only on the sub-family of the model identifier: for a Claude
\* identifier it carries budgetTokens and never maxReasoningEffort, for a Nova
\* identifier maxReasoningEffort and never budgetTokens; it never carries
\* both, and for identifiers of neither sub-family none is built.
C22_BedrockReasoningShape ==
    Governs("bedrock")
    => /\ (~ClaudeFamily(ModelId) /\ ~NovaFamily(ModelId))
            => ~Has(BedrockOptions, "reasoningConfig")
       /\ ~(Has(ReasoningConfig, "budgetTokens")
              /\ Has(ReasoningConfig, "maxReasoningEffort"))
       /\ (Has(BedrockOptions, "reasoningConfig") /\ ClaudeFamily(ModelId))
            => /\ Has(ReasoningConfig, "budgetTokens")
               /\ ~Has(ReasoningConfig, "maxReasoningEffort")
       /\ (Has(BedrockOptions, "reasoningConfig") /\ NovaFamily(ModelId))
            => /\ Has(ReasoningConfig, "maxReasoningEffort")
               /\ ~Has(ReasoningConfig, "budgetTokens")

\* C23: client parameters are resolved per field, the override first.  For a
\* provider that takes a credential, a client constructed for the call gets
\* overrides.apiKey if present, else the provider's credential variable, and
\* as endpoint overrides.baseUrl if present, else the provider's *_BASE_URL,
\* else its fixed default; the six OpenAI-compatible providers always go
\* through createOpenAI with an endpoint.  A default client is used only when
\* neither override field nor *_BASE_URL is present.  bedrock takes the region
\* and the ambient credential chain, and nothing of the overrides.
C23_OverrideFirstPerField ==
    Returned
    => IF result.provider = "bedrock"
       THEN Settings = [region |-> FirstOf(env["AWS_REGION"], "us-west-2", ""),
                        credentialProvider |-> "fromNodeProviderChain"]
       ELSE IF result.provider = "ollama" THEN TRUE
       ELSE IF DefaultClient
       THEN /\ overrides.apiKey = "" /\ overrides.baseUrl = ""
            /\ env[BaseUrlVarOf(result.provider)] = ""
            /\ result.provider \notin OpenAICompatible
       ELSE /\ Has(Settings, "apiKey")
            /\ Settings.apiKey =
                  FirstOf(overrides.apiKey, env[PROVIDER_ENV_VARS(result.provider)], "")
            /\ Has(Settings, "baseURL")
                  <=> FirstOf(overrides.baseUrl, env[BaseUrlVarOf(result.provider)],
                              DefaultEndpointOf(result.provider)) # ""
            /\ Has(Settings, "baseURL")
                  => Settings.baseURL =
                        FirstOf(overrides.baseUrl, env[BaseUrlVarOf(result.provider)],
                                DefaultEndpointOf(result.provider))
            /\ result.provider \in OpenAICompatible
                  => result.value.model.factory = "createOpenAI"

\* both override fields win over the server's key and endpoint of kimi
C23_Witness ==
    /\ Governs("kimi")
    /\ overrides.apiKey # "" /\ overrides.baseUrl # ""
    /\ env["KIMI_API_KEY"] # "" /\ env["KIMI_BASE_URL"] # ""
    /\ Settings = [apiKey |-> overrides.apiKey, baseURL |-> overrides.baseUrl]

\* C24 (as claimed): for openai, anthropic, google, azure, deepseek and ollama
\* the SDK's default client is used if and only if no override credential and
\* no custom endpoint, from the overrides or the environment, is present.
C24_DefaultClientIffNothingCustom ==
    (/\ Returned
     /\ result.provider \in {"openai", "anthropic", "google", "azure", "deepseek",
                             "ollama"})
    => (UsesDefaultClient <=> ~CustomParameters)

\* C24 (amended): for openai, google, azure and deepseek the default client is
\* used if and only if no override credential and no custom endpoint is
\* present (for azure AZURE_RESOURCE_NAME is an endpoint setting), and a
\* call-scoped client is constructed otherwise.  anthropic always constructs a
\* call-scoped client.  ollama uses its default client if and only if
\* OLLAMA_BASE_URL is unset, whatever the overrides are.
C24_DefaultClientWhereOffered ==
    Returned
    => /\ result.provider \in {"openai", "google", "azure", "deepseek"}
            => /\ UsesDefaultClient <=> ~CustomParameters
               /\ ~UsesDefaultClient
                    => /\ Settings # <<>>
                       /\ result.value.model.factory \in
                             {"createOpenAI", "createGoogleGenerativeAI",
                              "createAzure", "createDeepSeek"}
       /\ result.provider = "anthropic"
            => /\ ~UsesDefaultClient
               /\ result.value.model.factory = "createAnthropic"
               /\ Has(Settings, "baseURL")
       /\ result.provider = "ollama"
            => /\ UsesDefaultClient <=> env["OLLAMA_BASE_URL"] = ""
               /\ ~UsesDefaultClient
                    => Settings = [baseURL |-> env["OLLAMA_BASE_URL"]]

\* anthropic with nothing custom still gets a client of its own
C24_Witness ==
    /\ Governs("anthropic")
    /\ ~CustomParameters
    /\ result.value.model.factory = "createAnthropic"
    /\ Settings.baseURL = "https://api.anthropic.com/v1"

\* C25: the stages of a call run in a fixed order and the first failing stage
\* determines the error: security gate, model identifier, provider selection,
\* credential validation, option building, client construction.  When the
\* failure conditions of several stages hold at once the error is the one of
\* the earliest of them; no provider is selected when one of the first three
\* fails, and a descriptor is returned exactly when none fails.
C25_FirstFailingStageDecides ==
    Done
    => IF GateFails THEN Kind = SecurityError /\ result.provider = ""
       ELSE IF ModelIdMissing THEN Kind \in MissingModelErrors /\ result.provider = ""
       ELSE IF SelectionFails
       THEN /\ Kind \in {UnsupportedProviderError, NoProviderConfiguredError,
                         AmbiguousProviderError}
            /\ result.provider = ""
       ELSE IF CredentialsFail THEN Kind \in CredentialErrors
       ELSE IF OptionsFail THEN Kind \in NumericErrors
       ELSE IF ConstructionFails THEN Kind = UnknownProviderError
       ELSE Returned

\* a missing credential and a malformed budget at once: the credential error
C25_Witness ==
    /\ Done
    /\ ~GateFails /\ ~ModelIdMissing /\ ~SelectionFails
    /\ CredentialsFail
    /\ OptionsFail
    /\ Kind = MissingVariableError

\* C26 (as claimed): for provider bedrock the two Claude classifiers agree: a
\* returned bedrock options object never holds a reasoningConfig with
\* budgetTokens without the anthropicBeta flags.
C26_BedrockClassifiersAgree ==
    (Governs("bedrock") /\ Has(ReasoningConfig, "budgetTokens"))
    => Has(BedrockOptions, "anthropicBeta")

-----------------------------------------------------------------------------
(* The access-code form *)

\* request i is in flight: sent and not yet settled
InFlight(i) == requests[i].phase # "done"

\* this step settles request i with the given outcome
Settles(i, outcome) ==
    /\ InFlight(i)
    /\ requests'[i].phase = "done"
    /\ requests'[i].outcome = outcome

\* C27: the stored access code changes only in the step that settles a
\* request as valid, and is then the trimmed code that request sent, whatever
\* the input holds by then; a step that settles a request as invalid or
\* failed leaves the stored code and the open flag as they were and leaves a
\* non-empty error message; a call of handleSave while no access code is
\* required adds no request and changes nothing of the form.
C27_StoredOnlyAfterValid ==
    [][ /\ storedAccessCode' # storedAccessCode =>
               \E i \in DOMAIN requests : Settles(i, "valid")
        /\ \A i \in DOMAIN requests :
               /\ Settles(i, "valid") =>
                      storedAccessCode' = requests[i].header
               /\ (Settles(i, "invalid") \/ Settles(i, "failed")) =>
                      /\ storedAccessCode' = storedAccessCode
                      /\ open' = open
                      /\ errorMessage' # ""
        /\ (calls' # calls /\ ~accessCodeRequired) =>
               /\ requests' = requests
               /\ UNCHANGED <<accessCode, isVerifying, errorMessage,
                              accessCodeRequired, open, storedAccessCode>>
      ]_vars

\* a refused submission was followed by one that was sent with blanks around
\* the code, edited while in flight, answered valid and stored trimmed
C27_Witness ==
    /\ \E i \in DOMAIN requests :
           /\ requests[i].outcome = "valid"
           /\ requests[i].header # requests[i].accessCode
           /\ accessCode # requests[i].accessCode
           /\ Trim(accessCode) # requests[i].header
           /\ storedAccessCode = requests[i].header
    /\ \E j \in DOMAIN requests : requests[j].outcome \in {"invalid", "failed"}
    /\ ~open

\* C28: isVerifying is true whenever a verification request is in flight, at
\* most one request is in flight at a time, and isVerifying is false once
\* every request that was started has settled.
C28_VerifyingCoversRequests ==
    /\ (\E i \in DOMAIN requests : InFlight(i)) => isVerifying
    /\ Cardinality({i \in DOMAIN requests : InFlight(i)}) <= 1
    /\ (\A i \in DOMAIN requests : ~InFlight(i)) => ~isVerifying

=============================================================================
